---- MODULE Spec2Model ----
(***************************************************************************)
(* dtq: SQL-like SELECT statements against a dnstap record stream.         *)
(* The model follows src/main.go (the sqlparser based program, lines       *)
(* 1-629): the statement is compiled once, then the decode loop extracts,  *)
(* filters, projects and prints one record per iteration.                  *)
(***************************************************************************)
EXTENDS Integers, Sequences, FiniteSets, TLC

(***************************************************************************)
(* Bounds of the model.                                                    *)
(***************************************************************************)
\* records the decoder hands out before the stream must end
MaxRecords == 2
\* lines bufStdout holds before a further write flushes it (the buffer of
\* bufio.NewWriter counted in output lines)
BufLines == 1

(***************************************************************************)
(* Go values.                                                              *)
(***************************************************************************)
\* m[k] of a Go map: the zero value when the key is absent
MapGet(m, k, zero) == IF k \in DOMAIN m THEN m[k] ELSE zero

\* the empty Go map
EmptyMap == [k \in {} |-> ""]

\* decimal texts the statements of the model use, with their values
DecimalText ==
    ("0" :> 0) @@ ("1" :> 1) @@ ("53" :> 53) @@ ("31337" :> 31337) @@
    ("65536" :> 65536)

\* strconv.ParseUint(s, 10, bitSize): a text with a sign or a letter is a
\* syntax error, a value of more than bitSize bits a range error (every
\* value of DecimalText has less than 32 bits)
ParseUint(s, bitSize) ==
    IF s \in DOMAIN DecimalText /\ (bitSize >= 32 \/ DecimalText[s] < 2 ^ bitSize)
    THEN [ok |-> TRUE, u |-> DecimalText[s]]
    ELSE [ok |-> FALSE, u |-> 0]

(***************************************************************************)
(* The JSON field names of dtqData and the Go type of each, as the         *)
(* reflection loop of main collects them.                                  *)
(***************************************************************************)
jsonFieldNames ==
    [ dnstap_raw               |-> "*dnstap.Dnstap",
      dnstap_type_name         |-> "string",
      message_type_name        |-> "string",
      socket_family_name       |-> "string",
      socket_protocol_name     |-> "string",
      query_address_string     |-> "string",
      response_address_string  |-> "string",
      query_port               |-> "uint32",
      response_port            |-> "uint32",
      query_time_string        |-> "string",
      response_time_string     |-> "string",
      dnstap_is_query          |-> "*bool",
      dns_msg_raw              |-> "*dns.Msg",
      dns_question_name        |-> "string",
      dns_question_class_name  |-> "string",
      dns_question_type_name   |-> "string",
      dns_id                   |-> "uint16" ]

\* jsonFieldNames[name] as the code reads it
fieldType(name) == MapGet(jsonFieldNames, name, "")

(***************************************************************************)
(* sqlparser syntax trees.  A node is a record tagged by its Go type.      *)
(***************************************************************************)
\* sqlparser.String of a *ColName: the qualifier, when there is one, a dot
\* and the name
ColNameString(lhs) ==
    IF lhs.Qualifier # "" THEN lhs.Qualifier \o "." \o lhs.Name ELSE lhs.Name

ColName(q, n) == [node |-> "ColName", Qualifier |-> q, Name |-> n]
SQLVal(t, v) == [node |-> "SQLVal", Type |-> t, Val |-> v]
BoolVal(b) == [node |-> "BoolVal", Bool |-> b]
ComparisonExpr(op, l, r) ==
    [node |-> "ComparisonExpr", Operator |-> op, Left |-> l, Right |-> r]
AndExpr(l, r) == [node |-> "AndExpr", Left |-> l, Right |-> r]
OrExpr(l, r) == [node |-> "OrExpr", Left |-> l, Right |-> r]

(***************************************************************************)
(* Filter nodes, and the fatal outcome of log.Fatal inside newFilterTree.  *)
(***************************************************************************)
nilNode == [type |-> "nil"]
Fatal(m) == [type |-> "fatal", msg |-> m]
IsFatal(n) == n.type = "fatal"

andNode(l, r) == [type |-> "andNode", left |-> l, right |-> r]
orNode(l, r) == [type |-> "orNode", left |-> l, right |-> r]
compareNode(t, c, v) == [type |-> t, colName |-> c, val |-> v]

\* stringCompare without the test of the column's type
stringCompare_anyColumn(e, colName) ==
    IF e.Operator = "="
    THEN compareNode("stringEqNode", colName, e.Right.Val)
    ELSE IF e.Operator = "!="
         THEN compareNode("stringNotEqNode", colName, e.Right.Val)
         ELSE Fatal("unsupported operator for string comparision")

\* case sqlparser.StrVal of newFilterTree
stringCompare(e, colName) ==
    IF fieldType(colName) # "string"
    THEN Fatal("can not compare with string")
    ELSE IF e.Operator = "="
         THEN compareNode("stringEqNode", colName, e.Right.Val)
         ELSE IF e.Operator = "!="
              THEN compareNode("stringNotEqNode", colName, e.Right.Val)
              ELSE Fatal("unsupported operator for string comparision")

\* the uint32 branch of case sqlparser.IntVal
uint32Compare(e, colName) ==
    LET p == ParseUint(e.Right.Val, 32)
    IN  IF ~p.ok
        THEN Fatal("unable to parse uint32")
        ELSE IF e.Operator = "="
             THEN compareNode("uint32EqNode", colName, p.u)
             ELSE IF e.Operator = "!="
                  THEN compareNode("uint32NotEqNode", colName, p.u)
                  ELSE Fatal("unsupported uint32 operator")

\* the uint16 branch of case sqlparser.IntVal: both operators build a
\* uint16EqNode
uint16Compare(e, colName) ==
    LET p == ParseUint(e.Right.Val, 16)
    IN  IF ~p.ok
        THEN Fatal("unable to parse uint16")
        ELSE IF e.Operator = "="
             THEN compareNode("uint16EqNode", colName, p.u % 2 ^ 16)
             ELSE IF e.Operator = "!="
                  THEN compareNode("uint16EqNode", colName, p.u % 2 ^ 16)
                  ELSE Fatal("unsupported uint16 operator")

\* case sqlparser.IntVal: the type is looked up under lhs.Name, and the
\* 32 bit branch is taken for the type text "int32"
intCompare(e, colName) ==
    IF fieldType(e.Left.Name) = "int32"
    THEN uint32Compare(e, colName)
    ELSE IF fieldType(e.Left.Name) = "uint16"
         THEN uint16Compare(e, colName)
         ELSE Fatal("can not compare with integer")

\* case sqlparser.BoolVal: the operator is not looked at
boolCompare(e, colName) ==
    IF fieldType(e.Left.Name) = "*bool"
    THEN compareNode("boolNode", colName, e.Right.Bool)
    ELSE Fatal("can not compare with *bool")

\* case *sqlparser.ComparisonExpr
comparison(e) ==
    IF e.Left.node # "ColName"
    THEN Fatal("unsupported LHS type in comparision")
    ELSE LET colName == ColNameString(e.Left)
         IN  IF e.Right.node = "SQLVal"
             THEN IF e.Right.Type = "StrVal"
                  THEN stringCompare(e, colName)
                  ELSE IF e.Right.Type = "IntVal"
                       THEN intCompare(e, colName)
                       ELSE Fatal("got unsupported SQLVal in right hand side")
             ELSE IF e.Right.node = "BoolVal"
                  THEN boolCompare(e, colName)
                  ELSE Fatal("unsupported RHS value")

\* a node over two compiled sides; log.Fatal in the left side ends the
\* program before the right side is compiled
binaryNode(t, l, r) ==
    IF IsFatal(l) THEN l ELSE IF IsFatal(r) THEN r
    ELSE [type |-> t, left |-> l, right |-> r]

RECURSIVE newFilterTree(_)
\* Convert WHERE statement to a tree of type-specific filter nodes
newFilterTree(expr) ==
    IF expr.node = "AndExpr"
    THEN binaryNode("andNode", newFilterTree(expr.Left), newFilterTree(expr.Right))
    ELSE IF expr.node = "OrExpr"
         THEN binaryNode("orNode", newFilterTree(expr.Left), newFilterTree(expr.Right))
         ELSE IF expr.node = "ComparisonExpr"
              THEN comparison(expr)
              ELSE Fatal("unsupported WHERE expression")

(***************************************************************************)
(* parsedData and evaluateFilter.                                          *)
(***************************************************************************)
\* evalAnd with the operator of the orNode case
evalAnd_either(l, r) == l \/ r

\* case *andNode
evalAnd(l, r) == l /\ r

\* case *orNode
evalOr(l, r) == l \/ r

\* the comparison cases: the value is read from the map of the node's type
\* under the node's colName
evalCompare(n, pd) ==
    IF n.type = "stringEqNode" THEN n.val = MapGet(pd.stringData, n.colName, "")
    ELSE IF n.type = "stringNotEqNode" THEN n.val # MapGet(pd.stringData, n.colName, "")
    ELSE IF n.type = "uint16EqNode" THEN n.val = MapGet(pd.uint16Data, n.colName, 0)
    ELSE IF n.type = "uint16NotEqNode" THEN n.val # MapGet(pd.uint16Data, n.colName, 0)
    ELSE IF n.type = "uint32EqNode" THEN n.val = MapGet(pd.uint32Data, n.colName, 0)
    ELSE IF n.type = "uint32NotEqNode" THEN n.val # MapGet(pd.uint32Data, n.colName, 0)
    ELSE IF n.type = "boolNode" THEN n.val = MapGet(pd.boolData, n.colName, FALSE)
    ELSE FALSE

RECURSIVE evaluateFilter(_, _)
\* Traverse filter tree and see of the given parsed record matches the filter
evaluateFilter(fn, pd) ==
    IF fn.type = "andNode"
    THEN evalAnd(evaluateFilter(fn.left, pd), evaluateFilter(fn.right, pd))
    ELSE IF fn.type = "orNode"
         THEN evalOr(evaluateFilter(fn.left, pd), evaluateFilter(fn.right, pd))
         ELSE evalCompare(fn, pd)

FilterNodeTypes ==
    { "andNode", "orNode", "stringEqNode", "stringNotEqNode", "uint16EqNode",
      "uint16NotEqNode", "uint32EqNode", "uint32NotEqNode", "boolNode" }

RECURSIVE evaluateFatal(_, _)
\* the default case of evaluateFilter: log.Fatalf on a node of no known
\* type; && and || do not evaluate a right side they do not need
evaluateFatal(fn, pd) ==
    IF fn.type = "andNode"
    THEN \/ evaluateFatal(fn.left, pd)
         \/ evaluateFilter(fn.left, pd) /\ evaluateFatal(fn.right, pd)
    ELSE IF fn.type = "orNode"
         THEN \/ evaluateFatal(fn.left, pd)
              \/ ~evaluateFilter(fn.left, pd) /\ evaluateFatal(fn.right, pd)
         ELSE fn.type \notin FilterNodeTypes

(***************************************************************************)
(* Decoded dnstap frames.                                                  *)
(***************************************************************************)
\* dnstap.Message_Type_name
Message_Type_name ==
    (1 :> "AUTH_QUERY") @@ (2 :> "AUTH_RESPONSE") @@ (3 :> "RESOLVER_QUERY") @@
    (4 :> "RESOLVER_RESPONSE") @@ (5 :> "CLIENT_QUERY") @@ (6 :> "CLIENT_RESPONSE")

\* dnstap.Dnstap_Type_name
Dnstap_Type_name == (1 :> "MESSAGE")

\* dnstap.SocketFamily_name
SocketFamily_name == (1 :> "INET") @@ (2 :> "INET6")

\* dnstap.SocketProtocol_name
SocketProtocol_name == (1 :> "UDP") @@ (2 :> "TCP")

\* dns.ClassToString, the classes the model uses
ClassToString == (1 :> "IN") @@ (3 :> "CH")

\* dns.TypeToString, the types the model uses
TypeToString == (1 :> "A") @@ (15 :> "MX")

\* strings.HasSuffix(name, "_QUERY") on the names of Message_Type_name
HasSuffixQuery(name) == name \in {"AUTH_QUERY", "RESOLVER_QUERY", "CLIENT_QUERY"}

\* net.IP(b).String() of a four byte address
IPString(b) ==
    ToString(b[1]) \o "." \o ToString(b[2]) \o "." \o ToString(b[3]) \o "." \o ToString(b[4])

\* time.Unix(sec, nsec).Local().Format(time.RFC3339Nano), for a time in the
\* first seconds of the epoch and a local zone of UTC
FormatTime(sec) == "1970-01-01T00:00:0" \o ToString(sec) \o "Z"

\* the nil *dns.Msg
nilMsg == [isNil |-> TRUE]

\* msg.Unpack of the message bytes: an error leaves msg nil, otherwise msg
\* carries the header id and the question section, which may be empty
Unpack(payload) ==
    IF payload.wellFormed
    THEN [isNil |-> FALSE, Id |-> payload.Id, Question |-> payload.Question]
    ELSE nilMsg

isQueryOf(dt) == HasSuffixQuery(Message_Type_name[dt.Message.Type])

\* msgOf without the msg = nil of the error branches: the message keeps
\* what Unpack filled in before it failed
msgOf_keptOnError(dt) ==
    LET payload == IF isQueryOf(dt) THEN dt.Message.QueryMessage
                   ELSE dt.Message.ResponseMessage
    IN  [isNil |-> FALSE, Id |-> payload.Id, Question |-> payload.Question]

\* msg after the isQuery branch of the loop
msgOf(dt) ==
    IF isQueryOf(dt) THEN Unpack(dt.Message.QueryMessage)
    ELSE Unpack(dt.Message.ResponseMessage)

\* msg.Question[0] of a message without a question: index out of range
questionPanics(dt) == ~msgOf(dt).isNil /\ Len(msgOf(dt).Question) = 0

\* IN, CH etc or synthesized "CLASS31337"
dnsQuestionClassNameOf(msg) ==
    IF msg.isNil THEN ""
    ELSE IF msg.Question[1].Qclass \in DOMAIN ClassToString
         THEN ClassToString[msg.Question[1].Qclass]
         ELSE "CLASS" \o ToString(msg.Question[1].Qclass)

\* A, MX, NS etc, or the decimal number of the type
dnsQuestionTypeNameOf(msg) ==
    IF msg.isNil THEN ""
    ELSE IF msg.Question[1].Qtype \in DOMAIN TypeToString
         THEN TypeToString[msg.Question[1].Qtype]
         ELSE ToString(msg.Question[1].Qtype)

\* selectColumns["*"] || selectColumns[name]
selected(selectColumns, name) == "*" \in selectColumns \/ name \in selectColumns

\* pd.stringData after the extraction steps of the loop
stringDataOf(dt, selectColumns) ==
    LET msg == msgOf(dt)
        times ==
            IF isQueryOf(dt)
            THEN IF selected(selectColumns, "query_time_string")
                 THEN ("query_time_string" :> FormatTime(dt.Message.QueryTimeSec))
                 ELSE EmptyMap
            ELSE IF selected(selectColumns, "response_time_string")
                 THEN ("response_time_string" :> FormatTime(dt.Message.ResponseTimeSec))
                 ELSE EmptyMap
        names ==
            ("dnstap_type_name" :> Dnstap_Type_name[dt.Type]) @@
            ("message_type_name" :> Message_Type_name[dt.Message.Type]) @@
            ("socket_family_name" :> SocketFamily_name[dt.Message.SocketFamily]) @@
            ("socket_protocol_name" :> SocketProtocol_name[dt.Message.SocketProtocol])
        qa == IF dt.Message.QueryAddress # <<>>
              THEN ("query_address_string" :> IPString(dt.Message.QueryAddress))
              ELSE EmptyMap
        ra == IF dt.Message.ResponseAddress # <<>>
              THEN ("reponse_address_string" :> IPString(dt.Message.ResponseAddress))
              ELSE EmptyMap
        dns == IF ~msg.isNil
               THEN ("dns_question_name" :> msg.Question[1].Name) @@
                    ("dns_question_class_name" :> dnsQuestionClassNameOf(msg)) @@
                    ("dns_question_type_name" :> dnsQuestionTypeNameOf(msg))
               ELSE EmptyMap
    IN  times @@ names @@ qa @@ ra @@ dns

\* pd.uint32Data
uint32DataOf(dt) ==
    (IF dt.Message.QueryAddress # <<>>
     THEN ("query_port" :> dt.Message.QueryPort) ELSE EmptyMap) @@
    (IF dt.Message.ResponseAddress # <<>>
     THEN ("reponse_port" :> dt.Message.ResponsePort) ELSE EmptyMap)

\* pd.uint16Data
uint16DataOf(dt) ==
    IF ~msgOf(dt).isNil THEN ("dns_id" :> msgOf(dt).Id) ELSE EmptyMap

\* pd.boolData
boolDataOf(dt) == ("dnstap_is_query" :> isQueryOf(dt))

\* the parsedData of one record
parsedData(dt, selectColumns) ==
    [ stringData |-> stringDataOf(dt, selectColumns),
      uint16Data |-> uint16DataOf(dt),
      uint32Data |-> uint32DataOf(dt),
      boolData   |-> boolDataOf(dt) ]

(***************************************************************************)
(* Projection into dtqData and its JSON line.                              *)
(***************************************************************************)
nilPtr == [isNil |-> TRUE]
PtrTo(v) == [isNil |-> FALSE, v |-> v]

\* var ddOut dtqData
zeroDtqData ==
    [ dnstap_raw               |-> nilPtr,
      dnstap_type_name         |-> "",
      message_type_name        |-> "",
      socket_family_name       |-> "",
      socket_protocol_name     |-> "",
      query_address_string     |-> "",
      response_address_string  |-> "",
      query_port               |-> 0,
      response_port            |-> 0,
      query_time_string        |-> "",
      response_time_string     |-> "",
      dnstap_is_query          |-> nilPtr,
      dns_msg_raw              |-> nilMsg,
      dns_question_name        |-> "",
      dns_question_class_name  |-> "",
      dns_question_type_name   |-> "",
      dns_id                   |-> 0 ]

\* ddOut after the projection steps of the loop
project(dt, selectColumns) ==
    LET msg == msgOf(dt)
        sel(name) == selected(selectColumns, name)
        qa == dt.Message.QueryAddress # <<>>
        ra == dt.Message.ResponseAddress # <<>>
    IN  [ zeroDtqData EXCEPT
            !.dnstap_is_query = IF sel("dnstap_is_query") THEN PtrTo(isQueryOf(dt)) ELSE @,
            !.dnstap_raw = IF sel("dnstap_raw") THEN PtrTo(dt) ELSE @,
            !.dnstap_type_name =
                IF sel("dnstap_type_name") THEN Dnstap_Type_name[dt.Type] ELSE @,
            !.message_type_name =
                IF sel("message_type_name") THEN Message_Type_name[dt.Message.Type] ELSE @,
            !.socket_family_name =
                IF sel("socket_family_name")
                THEN SocketFamily_name[dt.Message.SocketFamily] ELSE @,
            !.socket_protocol_name =
                IF sel("socket_protocol_name")
                THEN SocketProtocol_name[dt.Message.SocketProtocol] ELSE @,
            !.query_address_string =
                IF qa /\ sel("query_address_string")
                THEN IPString(dt.Message.QueryAddress) ELSE @,
            !.query_port = IF qa /\ sel("query_port") THEN dt.Message.QueryPort ELSE @,
            !.response_address_string =
                IF ra /\ sel("response_address_string")
                THEN IPString(dt.Message.ResponseAddress) ELSE @,
            !.response_port =
                IF ra /\ sel("response_port") THEN dt.Message.ResponsePort ELSE @,
            !.dns_msg_raw = IF ~msg.isNil /\ sel("dns_msg_raw") THEN msg ELSE @,
            !.dns_question_name =
                IF ~msg.isNil /\ sel("dns_question_name") THEN msg.Question[1].Name ELSE @,
            !.dns_question_class_name =
                IF ~msg.isNil /\ sel("dns_question_class_name")
                THEN dnsQuestionClassNameOf(msg) ELSE @,
            !.dns_question_type_name =
                IF ~msg.isNil /\ sel("dns_question_type_name")
                THEN dnsQuestionTypeNameOf(msg) ELSE @,
            !.dns_id = IF ~msg.isNil /\ sel("dns_id") THEN msg.Id ELSE @ ]

\* the omitempty rule of encoding/json for the field types of dtqData
isEmptyValue(name, v) ==
    IF jsonFieldNames[name] = "string" THEN v = ""
    ELSE IF jsonFieldNames[name] \in {"uint32", "uint16"} THEN v = 0
    ELSE v.isNil

\* json.Marshal(&ddOut): the fields that are not empty, a pointer by its
\* pointee
Marshal(dd) ==
    [ name \in {n \in DOMAIN jsonFieldNames : ~isEmptyValue(n, dd[n])} |->
        IF jsonFieldNames[name] \in {"*bool", "*dnstap.Dnstap"} THEN dd[name].v
        ELSE dd[name] ]

\* fmt.Fprintf(bufStdout, ...): a line that does not fit flushes the
\* buffered lines to standard output first
bufWrite(buf, out, line) ==
    IF Len(buf) + 1 > BufLines
    THEN [buf |-> <<line>>, out |-> out \o buf]
    ELSE [buf |-> Append(buf, line), out |-> out]

(***************************************************************************)
(* Compiling the statement: the switch on stmt in main.                    *)
(***************************************************************************)
nilExpr == [node |-> "nil"]

\* the outcome of a compile step that ends the program
Exit(status, m) == [exit |-> TRUE, status |-> status, msg |-> m]
\* the outcome of a compile step that lets main go on
Pass == [exit |-> FALSE, status |-> 0, msg |-> ""]

\* stmt.Cache, stmt.Distinct, stmt.Hints
headCheck(stmt) ==
    IF stmt.Cache # "" THEN Exit(1, "CACHE is not supported")
    ELSE IF stmt.Distinct # "" THEN Exit(1, "DISTINCT is not supported")
    ELSE IF stmt.Hints # "" THEN Exit(1, "Hints are not supported")
    ELSE Pass

\* the loop over stmt.SelectExprs
selectCheck(stmt) ==
    IF \E c \in stmt.SelectExprs : fieldType(c) = "" /\ c # "*"
    THEN Exit(1, "is not a supported column")
    ELSE Pass

\* sqlparser.String(stmt.From) != "dnstap"
fromCheck(stmt) ==
    IF stmt.From # "dnstap" THEN Exit(1, "only existing table is 'dnstap'") ELSE Pass

\* ft after the stmt.Where step
whereTree(stmt) ==
    IF stmt.Where.node # "nil" /\ stmt.Where.Type = "where"
    THEN newFilterTree(stmt.Where.Expr)
    ELSE nilNode

\* stmt.GroupBy, stmt.Having, stmt.OrderBy
groupCheck(stmt) ==
    IF stmt.GroupBy # "" THEN Exit(1, "GROUP BY is not supported")
    ELSE IF stmt.Having.node # "nil" THEN Exit(1, "HAVING is not supported")
    ELSE IF stmt.OrderBy # "" THEN Exit(1, "ORDER BY is not supported")
    ELSE Pass

\* *ptr, err = strconv.ParseUint(string(e.Val), 10, 64) for a *sqlparser.SQLVal,
\* log.Fatalf for any other expression.  The store through a nil pointer is
\* a run time panic (exit status 2).
limitStore(ptr, e, what) ==
    IF e.node = "SQLVal"
    THEN IF ptr.isNil
         THEN [ptr |-> ptr, out |-> Exit(2, "nil pointer dereference")]
         ELSE IF ~ParseUint(e.Val, 64).ok
              THEN [ptr |-> ptr, out |-> Exit(1, "unable to parse LIMIT " \o what)]
              ELSE [ptr |-> PtrTo(ParseUint(e.Val, 64).u), out |-> Pass]
    ELSE [ptr |-> ptr, out |-> Exit(1, "unknown LIMIT " \o what \o " type")]

\* the stmt.Limit step, from var limitOffset, limitRows *uint64
limitStep(stmt) ==
    LET none == [limitOffset |-> nilPtr, limitRows |-> nilPtr, out |-> Pass]
    IN  IF stmt.Limit.node = "nil" THEN none
        ELSE LET o == IF stmt.Limit.Offset.node # "nil"
                      THEN limitStore(nilPtr, stmt.Limit.Offset, "offset")
                      ELSE [ptr |-> nilPtr, out |-> Pass]
                 r == IF stmt.Limit.Rowcount.node # "nil"
                      THEN limitStore(nilPtr, stmt.Limit.Rowcount, "rows")
                      ELSE [ptr |-> nilPtr, out |-> Pass]
             IN  IF o.out.exit
                 THEN [limitOffset |-> o.ptr, limitRows |-> nilPtr, out |-> o.out]
                 ELSE [limitOffset |-> o.ptr, limitRows |-> r.ptr, out |-> r.out]

\* lockCheck that lets a lock clause pass
lockCheck_ignored(stmt) == Pass

\* stmt.Lock
lockCheck(stmt) ==
    IF stmt.Lock # "" THEN Exit(1, "LOCK is not supported") ELSE Pass

\* the steps of case *sqlparser.Select in their order; the first that ends
\* the program decides
compileSelect(stmt) ==
    LET tree == whereTree(stmt)
        lim == limitStep(stmt)
        res(out, sel, t, lo, lr) ==
            [out |-> out, selectColumns |-> sel, ft |-> t,
             limitOffset |-> lo, limitRows |-> lr]
        sel == stmt.SelectExprs
    IN  IF headCheck(stmt).exit THEN res(headCheck(stmt), {}, nilNode, nilPtr, nilPtr)
        ELSE IF selectCheck(stmt).exit
             THEN res(selectCheck(stmt), {}, nilNode, nilPtr, nilPtr)
        ELSE IF fromCheck(stmt).exit THEN res(fromCheck(stmt), sel, nilNode, nilPtr, nilPtr)
        ELSE IF IsFatal(tree) THEN res(Exit(1, tree.msg), sel, nilNode, nilPtr, nilPtr)
        ELSE IF groupCheck(stmt).exit THEN res(groupCheck(stmt), sel, tree, nilPtr, nilPtr)
        ELSE IF lim.out.exit THEN res(lim.out, sel, tree, lim.limitOffset, lim.limitRows)
        ELSE IF lockCheck(stmt).exit
             THEN res(lockCheck(stmt), sel, tree, lim.limitOffset, lim.limitRows)
        ELSE res(Pass, sel, tree, lim.limitOffset, lim.limitRows)

\* sqlparser.Parse and the type switch on its result
compile(stmt) ==
    IF stmt.node = "Select" THEN compileSelect(stmt)
    ELSE [out |-> IF stmt.node = "SyntaxError"
                  THEN Exit(1, "syntax error")
                  ELSE Exit(1, "Only SELECT statements are supported"),
          selectColumns |-> {}, ft |-> nilNode,
          limitOffset |-> nilPtr, limitRows |-> nilPtr]

(***************************************************************************)
(* The inputs of the model: statements sqlparser.Parse can return and      *)
(* frames the decoder can return.                                          *)
(***************************************************************************)
Where(e) == [node |-> "Where", Type |-> "where", Expr |-> e]

WhereNames ==
    { "dns_question_name", "query_time_string", "response_address_string",
      "query_address_string", "dns_id", "query_port", "response_port", "dnstap_is_query", "dnstap_raw",
      "nosuch" }

Operators == {"=", "!=", "<"}

Literals ==
    { SQLVal("StrVal", "www.example.com."), SQLVal("StrVal", "192.0.2.53"),
      SQLVal("StrVal", "192.0.2.1"),
      SQLVal("StrVal", "1970-01-01T00:00:01Z"),
      SQLVal("IntVal", "31337"), SQLVal("IntVal", "0"), SQLVal("IntVal", "53"),
      SQLVal("IntVal", "65536"), SQLVal("FloatVal", "1.5"),
      BoolVal(TRUE), BoolVal(FALSE), [node |-> "NullVal"] }

\* column = literal style comparisons
Comparisons ==
    { ComparisonExpr(op, ColName(q, n), lit) :
        op \in Operators, q \in {"", "dnstap"}, n \in WhereNames, lit \in Literals }

\* the comparisons the compound expressions are built from
Operands ==
    { ComparisonExpr("=", ColName("", "dns_id"), SQLVal("IntVal", "31337")),
      ComparisonExpr("=", ColName("", "dns_question_name"),
                     SQLVal("StrVal", "www.example.com.")),
      ComparisonExpr("!=", ColName("", "dns_question_name"),
                     SQLVal("StrVal", "www.example.com.")),
      ComparisonExpr("=", ColName("", "dnstap_is_query"), BoolVal(TRUE)),
      ComparisonExpr("=", ColName("", "dnstap_is_query"), BoolVal(FALSE)),
      ComparisonExpr("=", ColName("", "query_port"), SQLVal("IntVal", "53")),
      ComparisonExpr("=", ColName("", "dns_id"), SQLVal("StrVal", "www.example.com.")) }

Compounds ==
    { AndExpr(a, b) : a \in Operands, b \in Operands } \cup
    { OrExpr(a, b) : a \in Operands, b \in Operands }

\* two levels of AND and OR over the first three operands
Nested ==
    LET few == { o \in Operands : /\ o.Left.Name \in {"dns_id", "dns_question_name"}
                                   /\ newFilterTree(o).type # "fatal" }
        inner == { AndExpr(a, b) : a \in few, b \in few } \cup
                 { OrExpr(a, b) : a \in few, b \in few }
    IN  { AndExpr(i, c) : i \in inner, c \in few } \cup
        { OrExpr(c, i) : i \in inner, c \in few }

OtherExprs ==
    { [node |-> "NotExpr"], [node |-> "ParenExpr"],
      ComparisonExpr("=", [node |-> "FuncExpr"], SQLVal("IntVal", "1")) }

WhereExprs == Comparisons \cup Compounds \cup Nested \cup OtherExprs

SelectLists ==
    { {"*"}, {"dns_question_name"},
      {"query_time_string", "response_time_string", "response_address_string",
       "response_port", "dns_id", "dnstap_raw"},
      {"dns_id", "nosuch"} }

Limits ==
    { nilExpr,
      [node |-> "Limit", Offset |-> nilExpr, Rowcount |-> SQLVal("IntVal", "1")],
      [node |-> "Limit", Offset |-> SQLVal("IntVal", "1"),
                         Rowcount |-> SQLVal("IntVal", "1")],
      [node |-> "Limit", Offset |-> nilExpr, Rowcount |-> [node |-> "FuncExpr"]] }

Select(cache, distinct, hints, sel, from, where, groupBy, having, orderBy, limit, lock) ==
    [ node |-> "Select", Cache |-> cache, Distinct |-> distinct, Hints |-> hints,
      SelectExprs |-> sel, From |-> from, Where |-> where, GroupBy |-> groupBy,
      Having |-> having, OrderBy |-> orderBy, Limit |-> limit, Lock |-> lock ]

\* SELECT ... FROM ... [WHERE ...] [LIMIT ...] and nothing else
PlainStatements ==
    { Select("", "", "", sel, from, where, "", nilExpr, "", limit, "") :
        sel \in SelectLists, from \in {"dnstap", "other"},
        where \in {nilExpr} \cup { Where(e) : e \in WhereExprs },
        limit \in Limits }

\* statements with any of the clauses main refuses
ClauseStatements ==
    { Select(cache, distinct, hints, sel, from, where, groupBy, having, orderBy, limit, lock) :
        cache \in {"", "sql_cache "}, distinct \in {"", "distinct "},
        hints \in {"", "straight_join "},
        sel \in {{"*"}, {"dns_id", "nosuch"}}, from \in {"dnstap", "other"},
        where \in { nilExpr,
                    Where(ComparisonExpr("=", ColName("", "dns_id"), SQLVal("IntVal", "31337"))),
                    Where(ComparisonExpr("=", ColName("", "dns_id"), SQLVal("StrVal", "abc"))) },
        groupBy \in {"", " group by dns_id"},
        having \in {nilExpr, Where(ComparisonExpr("=", ColName("", "dns_id"), SQLVal("IntVal", "1")))},
        orderBy \in {"", " order by dns_id asc"},
        limit \in { nilExpr,
                    [node |-> "Limit", Offset |-> nilExpr, Rowcount |-> SQLVal("IntVal", "1")] },
        lock \in {"", " for update"} }

Statements ==
    PlainStatements \cup ClauseStatements \cup
    { [node |-> "Insert"], [node |-> "SyntaxError"] }

\* the message bytes of a frame, by what msg.Unpack makes of them
Payload(ok, id, question) == [wellFormed |-> ok, Id |-> id, Question |-> question]
NoPayload == Payload(FALSE, 0, <<>>)
Question(name, class, type) == [Name |-> name, Qclass |-> class, Qtype |-> type]

Frame(type, qa, qp, ra, rp, qt, rt, qm, rm) ==
    [ Type |-> 1,
      Message |-> [ Type |-> type, SocketFamily |-> 1, SocketProtocol |-> 1,
                    QueryAddress |-> qa, QueryPort |-> qp,
                    ResponseAddress |-> ra, ResponsePort |-> rp,
                    QueryTimeSec |-> qt, ResponseTimeSec |-> rt,
                    QueryMessage |-> qm, ResponseMessage |-> rm ] ]

Frames ==
    { \* a client query and its response, sharing the id 31337
      Frame(5, <<192, 0, 2, 1>>, 40000, <<>>, 0, 1, 0,
            Payload(TRUE, 31337, <<Question("www.example.com.", 1, 1)>>), NoPayload),
      Frame(6, <<192, 0, 2, 1>>, 40000, <<192, 0, 2, 53>>, 53, 0, 2,
            NoPayload, Payload(TRUE, 31337, <<Question("www.example.com.", 1, 1)>>)),
      \* another query, of a class and type without a name, no addresses
      Frame(3, <<>>, 0, <<>>, 0, 1, 0,
            Payload(TRUE, 7, <<Question("example.org.", 254, 65280)>>), NoPayload),
      \* a response whose message does not unpack
      Frame(6, <<192, 0, 2, 1>>, 40000, <<192, 0, 2, 53>>, 53, 0, 2,
            NoPayload, Payload(FALSE, 0, <<>>)),
      \* a query whose message has an empty question section
      Frame(5, <<192, 0, 2, 1>>, 40000, <<>>, 0, 1, 0,
            Payload(TRUE, 31337, <<>>), NoPayload) }

(***************************************************************************)
(* The program.                                                            *)
(***************************************************************************)
VARIABLES
    stmt,           \* the result of sqlparser.Parse(*query)
    phase,          \* "compile", "loop" or "exited"
    exitStatus,     \* the exit status of the process once it has exited
    failure,        \* the message of the log.Fatal, os.Exit or panic, or ""
    selectColumns, ft, limitOffset, limitRows,
    rowCount, printedRows,
    decoded,        \* the frames dec.Decode has returned so far
    pd, ddOut,      \* parsedData and dtqData of the last frame processed
    bufStdout,      \* lines written to bufStdout and not flushed
    stdout          \* lines that reached standard output

vars ==
    << stmt, phase, exitStatus, failure, selectColumns, ft, limitOffset, limitRows,
       rowCount, printedRows, decoded, pd, ddOut, bufStdout, stdout >>

zeroParsedData ==
    [stringData |-> EmptyMap, uint16Data |-> EmptyMap,
     uint32Data |-> EmptyMap, boolData |-> EmptyMap]

Init ==
    /\ stmt \in Statements
    /\ phase = "compile"
    /\ exitStatus = 0
    /\ failure = ""
    /\ selectColumns = {}
    /\ ft = nilNode
    /\ limitOffset = nilPtr
    /\ limitRows = nilPtr
    /\ rowCount = 0
    /\ printedRows = 0
    /\ decoded = <<>>
    /\ pd = zeroParsedData
    /\ ddOut = zeroDtqData
    /\ bufStdout = <<>>
    /\ stdout = <<>>

\* main up to the decode loop
Compile ==
    /\ phase = "compile"
    /\ LET c == compile(stmt)
       IN  /\ selectColumns' = c.selectColumns
           /\ ft' = c.ft
           /\ limitOffset' = c.limitOffset
           /\ limitRows' = c.limitRows
           /\ phase' = IF c.out.exit THEN "exited" ELSE "loop"
           /\ exitStatus' = c.out.status
           /\ failure' = c.out.msg
    /\ UNCHANGED <<stmt, rowCount, printedRows, decoded, pd, ddOut, bufStdout, stdout>>

\* the LIMIT test at the top of the loop
limitReached == ~limitRows.isNil /\ printedRows = limitRows.v

\* rowCount <= *limitOffset
offsetSkips(n) == ~limitOffset.isNil /\ n <= limitOffset.v

\* filterDrops without the test for a nil tree
filterDrops_nilEvaluated(p) == ~evaluateFilter(ft, p)

\* the filter step of the loop
filterDrops(p) == ft.type # "nil" /\ ~evaluateFilter(ft, p)

\* one iteration of the loop in which dec.Decode returns the frame dt
DecodeFrame(dt) ==
    /\ phase = "loop"
    /\ ~limitReached
    /\ Len(decoded) < MaxRecords
    /\ rowCount' = rowCount + 1
    /\ decoded' = Append(decoded, dt)
    /\ LET p == parsedData(dt, selectColumns)
           dd == project(dt, selectColumns)
           w == bufWrite(bufStdout, stdout, Marshal(dd))
       IN  IF offsetSkips(rowCount')
           THEN UNCHANGED <<phase, exitStatus, failure, pd, ddOut, printedRows,
                            bufStdout, stdout>>
           ELSE IF questionPanics(dt)
           THEN /\ phase' = "exited"
                /\ exitStatus' = 2
                /\ failure' = "index out of range"
                /\ UNCHANGED <<pd, ddOut, printedRows, bufStdout, stdout>>
           ELSE IF ft.type # "nil" /\ evaluateFatal(ft, p)
           THEN /\ phase' = "exited"
                /\ exitStatus' = 1
                /\ failure' = "unsupported filter node"
                /\ pd' = p
                /\ UNCHANGED <<ddOut, printedRows, bufStdout, stdout>>
           ELSE IF filterDrops(p)
           THEN /\ pd' = p
                /\ UNCHANGED <<phase, exitStatus, failure, ddOut, printedRows,
                               bufStdout, stdout>>
           ELSE /\ pd' = p
                /\ ddOut' = dd
                /\ bufStdout' = w.buf
                /\ stdout' = w.out
                /\ printedRows' = printedRows + 1
                /\ UNCHANGED <<phase, exitStatus, failure>>
    /\ UNCHANGED <<stmt, selectColumns, ft, limitOffset, limitRows>>

\* an iteration in which dec.Decode returns an error other than io.EOF:
\* log.Fatal ends the process, bufStdout is not flushed
DecodeError ==
    /\ phase = "loop"
    /\ ~limitReached
    /\ rowCount' = rowCount + 1
    /\ phase' = "exited"
    /\ exitStatus' = 1
    /\ failure' = "decode error"
    /\ UNCHANGED <<stmt, selectColumns, ft, limitOffset, limitRows, printedRows,
                   decoded, pd, ddOut, bufStdout, stdout>>

\* the loop ends, by the LIMIT test or by io.EOF, and main flushes bufStdout
LoopEnd ==
    /\ phase = "loop"
    /\ rowCount' = IF limitReached THEN rowCount ELSE rowCount + 1
    /\ stdout' = stdout \o bufStdout
    /\ bufStdout' = <<>>
    /\ phase' = "exited"
    /\ exitStatus' = 0
    /\ UNCHANGED <<stmt, failure, selectColumns, ft, limitOffset, limitRows,
                   printedRows, decoded, pd, ddOut>>

Next ==
    \/ Compile
    \/ \E dt \in Frames : DecodeFrame(dt)
    \/ DecodeError
    \/ LoopEnd

Spec == Init /\ [][Next]_vars

(***************************************************************************)
(* Notions the properties are stated with.                                 *)
(***************************************************************************)
lastFrame == decoded[Len(decoded)]

\* the statement passes every step of the compilation before the WHERE step
ReachesWhere(s) ==
    /\ s.node = "Select"
    /\ ~headCheck(s).exit /\ ~selectCheck(s).exit /\ ~fromCheck(s).exit

\* the WHERE clause is one comparison of a column with a literal
WhereIsComparison(s) ==
    /\ ReachesWhere(s)
    /\ s.Where.node = "Where"
    /\ s.Where.Expr.node = "ComparisonExpr"
    /\ s.Where.Expr.Left.node = "ColName"
    /\ s.Where.Expr.Right.node \in {"SQLVal", "BoolVal"}

\* the declared type of a column of dtqData, "" for a name that is none
DeclaredType(name) ==
    IF name \notin DOMAIN jsonFieldNames THEN ""
    ELSE IF name \in {"query_port", "response_port"} THEN "UInt32"
    ELSE IF name = "dns_id" THEN "UInt16"
    ELSE IF name = "dnstap_is_query" THEN "Bool"
    ELSE IF name \in {"dnstap_raw", "dns_msg_raw"} THEN "Opaque"
    ELSE "String"

\* the syntactic kind of a literal
LiteralKind(lit) ==
    IF lit.node = "BoolVal" THEN "Bool"
    ELSE IF lit.node = "SQLVal" /\ lit.Type = "StrVal" THEN "String"
    ELSE IF lit.node = "SQLVal" /\ lit.Type = "IntVal" THEN "Integer"
    ELSE "Other"

\* the value a literal denotes
LiteralValue(lit) ==
    IF lit.node = "BoolVal" THEN lit.Bool
    ELSE IF lit.Type = "IntVal" THEN DecimalText[lit.Val]
    ELSE lit.Val

\* the literal is an unsigned integer that fits the column
InRange(lit, type) ==
    /\ LiteralKind(lit) = "Integer"
    /\ lit.Val \in DOMAIN DecimalText
    /\ type = "UInt16" => DecimalText[lit.Val] < 65536

\* the literal is of the kind the column's declared type asks for
KindMatches(lit, type) ==
    \/ LiteralKind(lit) = "String" /\ type = "String"
    \/ LiteralKind(lit) = "Integer" /\ type \in {"UInt16", "UInt32"}
    \/ LiteralKind(lit) = "Bool" /\ type = "Bool"

\* a literal a comparison with the column can be compiled for
FitsColumn(lit, type) ==
    /\ KindMatches(lit, type)
    /\ LiteralKind(lit) = "Integer" => InRange(lit, type)

\* the columns a frame carries a value for
Carries(dt, name) ==
    IF name = "query_time_string" THEN isQueryOf(dt)
    ELSE IF name = "response_time_string" THEN ~isQueryOf(dt)
    ELSE IF name \in {"query_address_string", "query_port"}
         THEN dt.Message.QueryAddress # <<>>
    ELSE IF name \in {"response_address_string", "response_port"}
         THEN dt.Message.ResponseAddress # <<>>
    ELSE IF name \in {"dns_msg_raw", "dns_question_name", "dns_question_class_name",
                      "dns_question_type_name", "dns_id"}
         THEN ~msgOf(dt).isNil
    ELSE TRUE

\* the value of every column of a frame, for the columns it carries
ColumnValue(dt, name) ==
    IF ~Carries(dt, name) THEN zeroDtqData[name]
    ELSE IF name = "dnstap_raw" THEN PtrTo(dt)
    ELSE IF name = "dnstap_type_name" THEN Dnstap_Type_name[dt.Type]
    ELSE IF name = "message_type_name" THEN Message_Type_name[dt.Message.Type]
    ELSE IF name = "socket_family_name" THEN SocketFamily_name[dt.Message.SocketFamily]
    ELSE IF name = "socket_protocol_name"
         THEN SocketProtocol_name[dt.Message.SocketProtocol]
    ELSE IF name = "query_address_string" THEN IPString(dt.Message.QueryAddress)
    ELSE IF name = "response_address_string" THEN IPString(dt.Message.ResponseAddress)
    ELSE IF name = "query_port" THEN dt.Message.QueryPort
    ELSE IF name = "response_port" THEN dt.Message.ResponsePort
    ELSE IF name = "query_time_string" THEN FormatTime(dt.Message.QueryTimeSec)
    ELSE IF name = "response_time_string" THEN FormatTime(dt.Message.ResponseTimeSec)
    ELSE IF name = "dnstap_is_query" THEN PtrTo(isQueryOf(dt))
    ELSE IF name = "dns_msg_raw" THEN msgOf(dt)
    ELSE IF name = "dns_question_name" THEN msgOf(dt).Question[1].Name
    ELSE IF name = "dns_question_class_name" THEN dnsQuestionClassNameOf(msgOf(dt))
    ELSE IF name = "dns_question_type_name" THEN dnsQuestionTypeNameOf(msgOf(dt))
    ELSE msgOf(dt).Id

\* the value a comparison on the column sees: the bool itself for the one
\* *bool column, false when it is absent
ComparedValue(dt, name) ==
    IF name = "dnstap_is_query" THEN isQueryOf(dt) ELSE ColumnValue(dt, name)

\* the loop has just handled a frame up to the filter step
FrameFiltered == phase = "loop" /\ decoded # <<>> /\ ~offsetSkips(rowCount)

(***************************************************************************)
(* C1: a Compare node with operator = is true of a record iff the record's *)
(* value for the column (the zero value when absent) equals the literal,   *)
(* and one with operator != is true iff it differs, for string, uint16,    *)
(* uint32 and bool literals.                                               *)
(***************************************************************************)
C1_CompareMatchesColumnValue ==
    (FrameFiltered /\ WhereIsComparison(stmt) /\ stmt.Where.Expr.Operator \in {"=", "!="})
    => LET e == stmt.Where.Expr
           same == ComparedValue(lastFrame, e.Left.Name) = LiteralValue(e.Right)
       IN  /\ e.Operator = "=" => (evaluateFilter(ft, pd) <=> same)
           /\ e.Operator = "!=" => (evaluateFilter(ft, pd) <=> ~same)

(***************************************************************************)
(* C2: on a stream of records that all match, a query with row limit n and *)
(* offset m emits exactly the records at positions m+1 .. min(m+n, k), in  *)
(* stream order, and terminates normally; without LIMIT all k records are  *)
(* emitted.                                                                *)
(***************************************************************************)
\* the statement has nothing main refuses, and its LIMIT values are numbers
ValidStatement(s) ==
    /\ ReachesWhere(s)
    /\ ~IsFatal(whereTree(s))
    /\ ~groupCheck(s).exit /\ ~lockCheck(s).exit
    /\ s.Limit.node # "nil" =>
          /\ s.Limit.Rowcount.node = "SQLVal" /\ s.Limit.Rowcount.Val \in DOMAIN DecimalText
          /\ s.Limit.Offset.node # "nil" =>
                s.Limit.Offset.node = "SQLVal" /\ s.Limit.Offset.Val \in DOMAIN DecimalText

\* every frame read can be handled and passes the filter of the statement
AllFramesMatch(s) ==
    \A i \in 1..Len(decoded) :
        /\ ~questionPanics(decoded[i])
        /\ LET t == whereTree(s)
           IN  t.type # "nil" => evaluateFilter(t, parsedData(decoded[i], s.SelectExprs))

OffsetOf(s) ==
    IF s.Limit.node = "nil" \/ s.Limit.Offset.node = "nil" THEN 0
    ELSE DecimalText[s.Limit.Offset.Val]

\* the number of frames emitted out of k
WindowSize(s, k) ==
    LET rest == IF k > OffsetOf(s) THEN k - OffsetOf(s) ELSE 0
    IN  IF s.Limit.node = "nil" THEN rest
        ELSE IF rest < DecimalText[s.Limit.Rowcount.Val] THEN rest
        ELSE DecimalText[s.Limit.Rowcount.Val]

C2_LimitOffsetWindow ==
    (phase = "exited" /\ failure # "decode error" /\ ValidStatement(stmt)
        /\ AllFramesMatch(stmt))
    => /\ exitStatus = 0
       /\ stdout = [ i \in 1..WindowSize(stmt, Len(decoded)) |->
                       Marshal(project(decoded[OffsetOf(stmt) + i], stmt.SelectExprs)) ]

(***************************************************************************)
(* C3: comparing a UInt32 column (query_port, response_port) or the UInt16 *)
(* column dns_id with an in-range unsigned integer literal compiles to a   *)
(* comparison node of the column's width; an integer literal is rejected   *)
(* as a type mismatch only for a column that is neither.                   *)
(***************************************************************************)
C3_IntegerLiteralCompiles ==
    (phase # "compile" /\ WhereIsComparison(stmt)
        /\ LiteralKind(stmt.Where.Expr.Right) = "Integer")
    => LET e == stmt.Where.Expr
           type == DeclaredType(e.Left.Name)
       IN  /\ (type = "UInt32" /\ InRange(e.Right, type) /\ e.Operator \in {"=", "!="})
                => ft.type \in {"uint32EqNode", "uint32NotEqNode"}
           /\ (type = "UInt16" /\ InRange(e.Right, type) /\ e.Operator \in {"=", "!="})
                => ft.type \in {"uint16EqNode", "uint16NotEqNode"}
           /\ failure = "can not compare with integer" => type \notin {"UInt32", "UInt16"}

(***************************************************************************)
(* C4: a comparison whose literal kind mismatches the declared type of its *)
(* column (or any literal on an opaque _raw column) aborts compilation     *)
(* before any record is read or emitted, never during evaluation; a WHERE  *)
(* clause that is such a comparison fails with a type mismatch.            *)
(***************************************************************************)
\* a comparison of a schema column with a string, integer or boolean literal
\* of a kind its declared type does not take
IsMismatch(e) ==
    /\ e.node = "ComparisonExpr"
    /\ e.Left.node = "ColName"
    /\ e.Left.Name \in DOMAIN jsonFieldNames
    /\ LiteralKind(e.Right) # "Other"
    /\ ~KindMatches(e.Right, DeclaredType(e.Left.Name))

RECURSIVE HasMismatch(_)
HasMismatch(e) ==
    IF e.node \in {"AndExpr", "OrExpr"} THEN HasMismatch(e.Left) \/ HasMismatch(e.Right)
    ELSE IsMismatch(e)

TypeMismatchMessages ==
    { "can not compare with string", "can not compare with integer",
      "can not compare with *bool" }

\* nothing of the stream was read, evaluated or written
NothingRead ==
    /\ decoded = <<>> /\ rowCount = 0 /\ printedRows = 0
    /\ pd = zeroParsedData /\ ddOut = zeroDtqData
    /\ bufStdout = <<>> /\ stdout = <<>>

C4_MismatchAbortsCompilation ==
    (ReachesWhere(stmt) /\ stmt.Where.node = "Where" /\ HasMismatch(stmt.Where.Expr))
    => /\ phase \in {"compile", "exited"}
       /\ NothingRead
       /\ phase = "exited" =>
            /\ exitStatus = 1
            /\ failure # "unsupported filter node"
            /\ IsMismatch(stmt.Where.Expr) => failure \in TypeMismatchMessages

\* WHERE dns_id = '...' has failed with the type mismatch
C4_Witness ==
    /\ phase = "exited"
    /\ ReachesWhere(stmt) /\ stmt.Where.node = "Where"
    /\ IsMismatch(stmt.Where.Expr)
    /\ stmt.Where.Expr.Left.Name = "dns_id"
    /\ LiteralKind(stmt.Where.Expr.Right) = "String"
    /\ failure = "can not compare with string"

(***************************************************************************)
(* C5: with the wildcard every column the record carries a value for is    *)
(* populated in the output; with an explicit selection S a field is        *)
(* populated iff its column is in S and the record carries a value for it, *)
(* every other field keeps its zero value.                                 *)
(***************************************************************************)
C5_ProjectionPopulatesSelection ==
    (FrameFiltered /\ ~filterDrops(pd))
    => \A name \in DOMAIN jsonFieldNames :
          ddOut[name] =
             IF selected(stmt.SelectExprs, name) /\ Carries(lastFrame, name)
             THEN ColumnValue(lastFrame, name)
             ELSE zeroDtqData[name]

(***************************************************************************)
(* C6: only = and != compile: for a String, UInt16, UInt32 or Bool column  *)
(* a comparison with any other operator aborts compilation with an         *)
(* unsupported-operator error and produces no filter node.                 *)
(***************************************************************************)
UnsupportedOperatorMessages ==
    { "unsupported operator for string comparision", "unsupported uint32 operator",
      "unsupported uint16 operator" }

C6_OtherOperatorsRejected ==
    (phase # "compile" /\ WhereIsComparison(stmt)
        /\ stmt.Where.Expr.Left.Qualifier = ""
        /\ FitsColumn(stmt.Where.Expr.Right, DeclaredType(stmt.Where.Expr.Left.Name))
        /\ stmt.Where.Expr.Operator \notin {"=", "!="})
    => /\ phase = "exited"
       /\ failure \in UnsupportedOperatorMessages
       /\ ft.type = "nil"

(***************************************************************************)
(* C7: a query with an unsupported clause (DISTINCT, GROUP BY, HAVING,     *)
(* ORDER BY, lock, cache, hints) or a statement that is no SELECT fails    *)
(* compilation: the run ends in an error, no record is read and no line    *)
(* is written, whatever else the query contains.                           *)
(***************************************************************************)
HasUnsupportedClause(s) ==
    /\ s.node = "Select"
    /\ \/ s.Cache # "" \/ s.Distinct # "" \/ s.Hints # ""
       \/ s.GroupBy # "" \/ s.Having.node # "nil" \/ s.OrderBy # ""
       \/ s.Lock # ""

C7_UnsupportedClauseFailsCompilation ==
    (HasUnsupportedClause(stmt) \/ stmt.node = "Insert")
    => /\ phase \in {"compile", "exited"}
       /\ NothingRead
       /\ phase = "exited" => exitStatus # 0 /\ failure # ""

\* a statement that only adds a lock clause to a valid one has been refused
C7_Witness ==
    /\ phase = "exited"
    /\ stmt.node = "Select" /\ stmt.Lock # ""
    /\ stmt.Cache = "" /\ stmt.Distinct = "" /\ stmt.Hints = ""
    /\ stmt.GroupBy = "" /\ stmt.Having.node = "nil" /\ stmt.OrderBy = ""
    /\ stmt.Limit.node = "nil"
    /\ failure = "LOCK is not supported"
    /\ exitStatus = 1

(***************************************************************************)
(* C8: when a read of the stream fails after records have been emitted,    *)
(* the run ends with a non-zero status and every record emitted before the *)
(* failure has reached standard output.                                    *)
(***************************************************************************)
C8_EmittedBeforeReadErrorDelivered ==
    (phase = "exited" /\ failure = "decode error")
    => /\ exitStatus # 0
       /\ bufStdout = <<>>
       /\ Len(stdout) = printedRows

(***************************************************************************)
(* C9: a record whose DNS message does not unpack never ends the run: its  *)
(* DNS fields are absent, the filter compares them as the zero values of   *)
(* their types, the record is projected when it passes, and the loop goes  *)
(* on.  Evaluating and projecting a decoded record never fails.            *)
(***************************************************************************)
DnsStringKeys ==
    {"dns_question_name", "dns_question_class_name", "dns_question_type_name"}

\* the parsedData with the DNS fields present and holding zero values
WithZeroDns(p) ==
    [ p EXCEPT !.stringData = [k \in DnsStringKeys |-> ""] @@ @,
               !.uint16Data = ("dns_id" :> 0) @@ @ ]

\* the message bytes of the frame do not unpack
Unparsable(dt) ==
    IF isQueryOf(dt) THEN ~dt.Message.QueryMessage.wellFormed
    ELSE ~dt.Message.ResponseMessage.wellFormed

\* a step of the loop that reads one more frame
ReadsFrame == phase = "loop" /\ Len(decoded') = Len(decoded) + 1

C9_UnparsableStep ==
    (ReadsFrame /\ Unparsable(decoded'[Len(decoded')]) /\ ~offsetSkips(rowCount'))
    => /\ phase' = "loop" /\ failure' = ""
       /\ DOMAIN pd'.stringData \cap DnsStringKeys = {}
       /\ DOMAIN pd'.uint16Data = {}
       /\ LET passes == ft.type = "nil" \/ evaluateFilter(ft, WithZeroDns(pd'))
          IN  IF passes
              THEN /\ printedRows' = printedRows + 1
                   /\ stdout' \o bufStdout' = Append(stdout \o bufStdout, Marshal(ddOut'))
                   /\ \A name \in DnsStringKeys \cup {"dns_id", "dns_msg_raw"} :
                         ddOut'[name] = zeroDtqData[name]
              ELSE UNCHANGED <<printedRows, stdout, bufStdout, ddOut>>

C9_UnparsableRecordDoesNotAbort ==
    [][C9_UnparsableStep /\ failure' # "unsupported filter node"]_vars

\* two responses that do not unpack have passed WHERE dns_id = 0 and were
\* written
C9_Witness ==
    /\ phase = "loop"
    /\ Len(decoded) = 2
    /\ Unparsable(decoded[1]) /\ Unparsable(decoded[2])
    /\ ft.type = "uint16EqNode" /\ ft.val = 0
    /\ printedRows = 2
    /\ Len(bufStdout) + Len(stdout) = 2

(***************************************************************************)
(* C10: a record passes And(P, Q) iff it passes P and passes Q, it passes  *)
(* Or(P, Q) iff it passes P or passes Q, so And(P, P) and Or(P, P) accept  *)
(* what P accepts; evaluating changes neither the tree nor the record.     *)
(***************************************************************************)
C10_Step ==
    (ReadsFrame /\ phase' = "loop" /\ ~offsetSkips(rowCount')
        /\ ft.type \in {"andNode", "orNode"})
    => LET emitted == printedRows' = printedRows + 1
           p == evaluateFilter(ft.left, pd')
           q == evaluateFilter(ft.right, pd')
           e == stmt.Where.Expr
       IN  /\ ft.type = "andNode" => (emitted <=> (p /\ q))
           /\ ft.type = "orNode" => (emitted <=> (p \/ q))
           /\ e.Left = e.Right => (emitted <=> p)
           /\ ft' = ft
           /\ pd' = parsedData(decoded'[Len(decoded')], selectColumns)
           /\ decoded' = Append(decoded, decoded'[Len(decoded')])

C10_AndOrSemantics == [][C10_Step]_vars

\* And(P, Q) has dropped a record that passes P and not Q
C10_WitnessAnd ==
    /\ phase = "loop" /\ decoded # <<>>
    /\ ft.type = "andNode"
    /\ evaluateFilter(ft.left, pd) /\ ~evaluateFilter(ft.right, pd)
    /\ printedRows = 0

(***************************************************************************)
(* C11: a query without a WHERE clause has a nil filter tree, and every    *)
(* record the offset and limit rules let through is emitted: the filter    *)
(* step never drops a record.                                              *)
(***************************************************************************)
NoWhere == stmt.node = "Select" /\ stmt.Where.node = "nil"

C11_Step ==
    (ReadsFrame /\ NoWhere /\ ~offsetSkips(rowCount'))
    => LET dt == decoded'[Len(decoded')]
       IN  /\ ft.type = "nil"
           /\ phase' = "loop" =>
                /\ printedRows' = printedRows + 1
                /\ stdout' \o bufStdout' =
                      Append(stdout \o bufStdout, Marshal(project(dt, selectColumns)))
           /\ phase' = "exited" => failure' = "index out of range"

C11_NoWhereEmitsEveryRecord == [][C11_Step]_vars

\* two records were read without a WHERE clause and both were written
C11_Witness ==
    /\ NoWhere
    /\ phase = "loop"
    /\ ft.type = "nil"
    /\ Len(decoded) = 2
    /\ printedRows = 2
    /\ Len(stdout) + Len(bufStdout) = 2

(***************************************************************************)
(* C12: after a successful compilation the column name stored in every     *)
(* Compare node of the filter tree is the name of a column of dtqData and  *)
(* the literal type of the node is the declared type of that column,       *)
(* however the WHERE clause writes the column (dnstap.dns_id included).    *)
(***************************************************************************)
\* the literal type a comparison node carries
NodeLiteralType(type) ==
    IF type \in {"stringEqNode", "stringNotEqNode"} THEN "String"
    ELSE IF type \in {"uint16EqNode", "uint16NotEqNode"} THEN "UInt16"
    ELSE IF type \in {"uint32EqNode", "uint32NotEqNode"} THEN "UInt32"
    ELSE IF type = "boolNode" THEN "Bool"
    ELSE ""

RECURSIVE CompareNodesOnSchema(_)
CompareNodesOnSchema(n) ==
    IF n.type = "nil" THEN TRUE
    ELSE IF n.type \in {"andNode", "orNode"}
         THEN CompareNodesOnSchema(n.left) /\ CompareNodesOnSchema(n.right)
         ELSE /\ n.colName \in DOMAIN jsonFieldNames
              /\ NodeLiteralType(n.type) = DeclaredType(n.colName)

C12_CompareNodesNameSchemaColumns ==
    phase = "loop" => CompareNodesOnSchema(ft)

(***************************************************************************)
(* C13: every key the extraction step stores a filterable value under is   *)
(* the schema column name of that value, so for a record with a response   *)
(* address `response_port = p` is true iff its response port is p and      *)
(* `response_address_string = 'a'` iff its response address is a, as for   *)
(* query_port and query_address_string.                                    *)
(***************************************************************************)
\* the keys of a map of parsedData are columns of the declared type
KeysAreColumns(m, type) ==
    \A k \in DOMAIN m : k \in DOMAIN jsonFieldNames /\ DeclaredType(k) = type

\* the WHERE clause is `name = literal` on an unqualified address or port
\* column the last frame carries
AddressComparison(name) ==
    /\ WhereIsComparison(stmt)
    /\ stmt.Where.Expr.Operator = "="
    /\ stmt.Where.Expr.Left.Qualifier = ""
    /\ stmt.Where.Expr.Left.Name = name
    /\ FitsColumn(stmt.Where.Expr.Right, DeclaredType(name))
    /\ Carries(lastFrame, name)

C13_ExtractionKeysAreColumnNames ==
    FrameFiltered
    => /\ KeysAreColumns(pd.stringData, "String")
       /\ KeysAreColumns(pd.uint16Data, "UInt16")
       /\ KeysAreColumns(pd.uint32Data, "UInt32")
       /\ KeysAreColumns(pd.boolData, "Bool")
       /\ \A name \in {"response_port", "response_address_string",
                       "query_port", "query_address_string"} :
             AddressComparison(name)
             => (evaluateFilter(ft, pd)
                   <=> ColumnValue(lastFrame, name) = LiteralValue(stmt.Where.Expr.Right))

(***************************************************************************)
(* C14: whether a record passes the filter depends on the record and the   *)
(* WHERE clause only, never on the SELECT list: the same WHERE clause      *)
(* under another SELECT list passes the same records.                      *)
(***************************************************************************)
\* the SELECT lists main accepts
AcceptedSelectLists ==
    { sel \in SelectLists : \A c \in sel : c = "*" \/ c \in DOMAIN jsonFieldNames }

C14_FilterIndependentOfSelectList ==
    (FrameFiltered /\ ft.type # "nil")
    => \A sel \in AcceptedSelectLists :
          evaluateFilter(ft, pd) <=> evaluateFilter(ft, parsedData(lastFrame, sel))

====
